---------------------------- MODULE Spec2Model ----------------------------
(***************************************************************************)
(* A model of the tinyraytracer (src/src/main.rs, src/src/geometry.rs).    *)
(*                                                                         *)
(* Numbers.  An f32 is modelled as a decimal fixed-point number: the       *)
(* integer x stands for x / ONE, with ONE = 1000, so that the bias 1e-3    *)
(* of cast_ray is one step of the grid, the background colour              *)
(* (0.2, 0.7, 0.8) is (200, 700, 800) and the far plane 1000 is            *)
(* 1000 * ONE.  Addition and subtraction are exact; a product and a        *)
(* quotient are rounded to the nearest grid step, a square root is         *)
(* rounded down.  Every operation of the code is kept, in the code's       *)
(* order, so that c * (1 / m) and c / m are different computations, as     *)
(* they are in f32.                                                        *)
(***************************************************************************)
EXTENDS Integers, Sequences, FiniteSets, TLC

\* `let x = e; F(x)`: F applied to the value of e, which is computed once.
Bind(e, F(_)) == CHOOSE r \in {F(x) : x \in {e}} : TRUE

\* The same for an operation on two values.
Bind2(d, e, F(_, _)) == CHOOSE r \in {F(x, y) : x \in {d}, y \in {e}} : TRUE

\* One length unit, in grid steps (the grid step is the bias 1e-3).
ONE == 1000

Abs(x) == IF x < 0 THEN -x ELSE x

\* f32 product a * b, rounded to the nearest grid step.  The product is
\* formed from the whole and the fractional part of |a| so that operands
\* up to the far plane (10^6 steps) stay within 32-bit integers.
FMul(a, b) ==
    Bind2(Abs(a), Abs(b), LAMBDA x, y :
        IF (a < 0) # (b < 0)
        THEN -((x \div ONE) * y + ((x % ONE) * y + ONE \div 2) \div ONE)
        ELSE (x \div ONE) * y + ((x % ONE) * y + ONE \div 2) \div ONE)

\* f32 quotient a / b (b # 0), rounded to the nearest grid step.
FDiv(a, b) ==
    Bind2(Abs(a), Abs(b), LAMBDA x, y :
        IF (a < 0) # (b < 0)
        THEN -((x * ONE + y \div 2) \div y)
        ELSE (x * ONE + y \div 2) \div y)

\* s * s <= a * ONE, computed without forming either product.
SqLeq(s, a) ==
    Bind2(s \div ONE, s % ONE, LAMBDA q, r :
    Bind(q * q * ONE + 2 * q * r + (r * r) \div ONE, LAMBDA hi :
        hi < a \/ (hi = a /\ (r * r) % ONE = 0)))

RECURSIVE SqrtBits(_, _, _)
SqrtBits(a, s, bit) ==
    IF bit = 0 THEN s
    ELSE Bind(IF SqLeq(s + bit, a) THEN s + bit ELSE s, LAMBDA next :
             SqrtBits(a, next, bit \div 2))

\* f32::sqrt of a >= 0: the largest grid value s with s * s <= a.
FSqrt(a) == Bind(a, LAMBDA v : SqrtBits(v, 0, 1048576))

FMax(a, b) == IF a >= b THEN a ELSE b
FMin(a, b) == IF a <= b THEN a ELSE b

RECURSIVE PowBits(_, _)
PowBits(x, n) ==
    IF n = 0 THEN ONE
    ELSE Bind(PowBits(x, n \div 2), LAMBDA h :
         Bind(FMul(h, h), LAMBDA h2 :
            IF n % 2 = 0 THEN h2 ELSE FMul(h2, x)))

\* f32::powf(x, n) for x >= 0 and an exponent n that is a whole number
\* (all exponents of the scenes are): square and multiply.
FPow(x, n) == Bind(x, LAMBDA v : PowBits(v, n))

---------------------------------------------------------------------------
(* geometry.rs: Vec3f, a triple <<x, y, z>> of f32.                        *)

new(x, y, z) == <<x, y, z>>

default == <<0, 0, 0>>

add(a, b) ==
    Bind2(a, b, LAMBDA u, v : <<u[1] + v[1], u[2] + v[2], u[3] + v[3]>>)

sub(a, b) ==
    Bind2(a, b, LAMBDA u, v : <<u[1] - v[1], u[2] - v[2], u[3] - v[3]>>)

\* Mul<f32> for Vec3f: the vector scaled by a number.
mul_f32(a, k) ==
    Bind2(a, k, LAMBDA u, v : <<FMul(u[1], v), FMul(u[2], v), FMul(u[3], v)>>)

\* Mul for Vec3f: the dot product, each product rounded, then summed.
mul(a, b) ==
    Bind2(a, b, LAMBDA u, v :
        FMul(u[1], v[1]) + FMul(u[2], v[2]) + FMul(u[3], v[3]))

neg(a) == mul_f32(a, -ONE)

norm(a) ==
    Bind(a, LAMBDA u :
        FSqrt(FMul(u[1], u[1]) + FMul(u[2], u[2]) + FMul(u[3], u[3])))

normalize(a) == Bind(a, LAMBDA u : mul_f32(u, FDiv(ONE, norm(u))))

reflect(a, p) ==
    Bind2(a, p, LAMBDA u, v : sub(u, mul_f32(mul_f32(v, 2 * ONE), mul(u, v))))

\* `as u8` of a value in [0, 255]: the fraction is cut off.
AsU8(x) == x \div ONE

\* The three bytes of a colour, one per channel, in the order r, g, b.
as_bytes(a) ==
    <<AsU8(FMul(FMax(FMin(a[1], ONE), 0), 255 * ONE)),
      AsU8(FMul(FMax(FMin(a[2], ONE), 0), 255 * ONE)),
      AsU8(FMul(FMax(FMin(a[3], ONE), 0), 255 * ONE))>>

---------------------------------------------------------------------------
(* main.rs: Light, Material, Sphere.                                       *)

Light(position, intensity) ==
    [position |-> position, intensity |-> intensity]

Material(albedo, color, spec) ==
    [albedo |-> albedo, diffuse_color |-> color, specular_exponent |-> spec]

\* Material::default(): every field zero.
MaterialDefault == Material(default, default, 0)

Sphere(center, radius, material) ==
    [center |-> center, radius |-> radius, material |-> material]

\* ray_intersect without the far root: the origin inside the sphere is not
\* a hit.
ray_intersect_t1_near_only(near, t1) ==
    [hit |-> ~(near < 0), t0 |-> near]

\* lines 68-76, with *t0 = tca - thc (`near`) and t1 = tca + thc.
ray_intersect_t1(near, t1) ==
    [hit |-> ~((IF near < 0 THEN t1 ELSE near) < 0),
     t0  |-> IF near < 0 THEN t1 ELSE near]

\* Sphere::ray_intersect.  t0 is the caller's variable the code writes
\* through `&mut f32`: the result holds the returned flag and the value
\* the variable has afterwards (it is written before the second `return
\* false`, and left alone by the first).
ray_intersect(self, p, direction, t0) ==
    Bind(sub(self.center, p), LAMBDA vcp :
    Bind(mul(vcp, direction), LAMBDA tca :
    Bind(mul(vcp, vcp) - FMul(tca, tca), LAMBDA d2 :
        IF d2 > FMul(self.radius, self.radius)
        THEN [hit |-> FALSE, t0 |-> t0]
        ELSE Bind(FSqrt(FMul(self.radius, self.radius) - d2), LAMBDA thc :
                 ray_intersect_t1(tca - thc, tca + thc)))))

\* std::f32::MAX: the largest number of the model.
F32_MAX == 2147483647

\* The far plane of scene_intersect: 1000f32.
FAR == 1000 * ONE

\* The locals of scene_intersect before the loop.  idx is not in the code:
\* it records which sphere (by position in `spheres`) the locals were last
\* taken from, 0 for none.
ScanInit ==
    [spheres_dist |-> F32_MAX, hit |-> default, n |-> default,
     material |-> MaterialDefault, dist_i |-> 0, idx |-> 0]

\* lines 134-137: the locals after sphere number k was found nearer,
\* at dist_i, with hit = orig + direction * dist_i.
ScanRecord(sphere, k, dist_i, hit) ==
    [spheres_dist |-> dist_i,
     hit          |-> hit,
     n            |-> normalize(sub(hit, sphere.center)),
     material     |-> sphere.material,
     dist_i       |-> dist_i,
     idx          |-> k]

\* The condition of line 133 with <= for <: a later sphere at the same
\* distance replaces the recorded one.
ScanTest_or_equal(list, k, orig, direction, acc, r) ==
    IF r.hit /\ r.t0 <= acc.spheres_dist
    THEN ScanRecord(list[k], k, r.t0, add(orig, mul_f32(direction, r.t0)))
    ELSE [acc EXCEPT !.dist_i = r.t0]

\* line 133: the condition of the `if`, on the result r of ray_intersect.
ScanTest(list, k, orig, direction, acc, r) ==
    IF r.hit /\ r.t0 < acc.spheres_dist
    THEN ScanRecord(list[k], k, r.t0, add(orig, mul_f32(direction, r.t0)))
    ELSE [acc EXCEPT !.dist_i = r.t0]

\* One iteration of the loop of scene_intersect, on sphere number k.
ScanStep(list, k, orig, direction, acc) ==
    Bind(ray_intersect(list[k], orig, direction, acc.dist_i), LAMBDA r :
        ScanTest(list, k, orig, direction, acc, r))

RECURSIVE Scan(_, _, _, _, _)
Scan(list, k, orig, direction, acc) ==
    IF k > Len(list) THEN acc
    ELSE Bind(ScanStep(list, k, orig, direction, acc), LAMBDA next :
             Scan(list, k + 1, orig, direction, next))

\* The result with <= for < at the far plane.
ScanResult_or_equal(acc) ==
    [some         |-> acc.spheres_dist <= FAR,
     point        |-> acc.hit,
     n            |-> acc.n,
     material     |-> acc.material,
     spheres_dist |-> acc.spheres_dist,
     idx          |-> acc.idx]

\* lines 140-144: the result, from the loop's final locals.  The fields
\* spheres_dist and idx are not returned by the code: they are kept for
\* the claims.
ScanResult(acc) ==
    [some         |-> acc.spheres_dist < FAR,
     point        |-> acc.hit,
     n            |-> acc.n,
     material     |-> acc.material,
     spheres_dist |-> acc.spheres_dist,
     idx          |-> acc.idx]

\* Image::scene_intersect on the spheres `list`: Some((hit, n, material))
\* or None.
scene_intersect(list, orig, direction) ==
    Bind(orig, LAMBDA o :
    Bind(direction, LAMBDA d :
    Bind(Scan(list, 1, o, d, ScanInit), LAMBDA acc : ScanResult(acc))))

---------------------------------------------------------------------------
(* main.rs: the Image, cast_ray, render and main as a state machine.       *)

VARIABLES
    spheres,      \* Image.spheres
    lights,       \* Image.lights
    width,        \* Image.width
    framebuffer,  \* Image.framebuffer, row-major, cell k of the code at k + 1
    pc,           \* where main / render stands
    i, j,         \* the loop variables of render's pass over the pixels
    stack,        \* the activation records of cast_ray, innermost last
    ret,          \* the cast_ray call that returned last, and its value
    writes,       \* per cell: how often the render pass stored into it
    toned,        \* per cell: how often the export closure visited it
    bytes,        \* the Vec<u8> the export closure collects
    png,          \* what the png encoder was asked to do, in order
    result,       \* what render returned: "none" (not yet), "Ok" or "Err"
    inp, out      \* argument and result of a function applied on its own

vars == <<spheres, lights, width, framebuffer, pc, i, j, stack, ret,
          writes, toned, bytes, png, result, inp, out>>

\* std::f32::consts::FRAC_PI_2
FRAC_PI_2 == 1571

\* Image.fov: set by Image::new and never changed.
fov == FRAC_PI_2

\* f32::tan, needed at fov / 2 only, where it is 1 to the grid's precision.
FTan(x) == IF x = FDiv(FRAC_PI_2, 2 * ONE) THEN ONE ELSE 0

\* Image::height
height == Len(framebuffer) \div width

\* A row taken to start at a multiple of the height.
index_mut_by_height(index) == index * (Len(framebuffer) \div width)

\* Index / IndexMut for Image: the first cell of row `index`.
index_mut(index) == index * width

\* self[i][j] as a position of `framebuffer` (sequences start at 1).
Cell(row, col) == index_mut(row) + col + 1

\* Option<usize>
None == [some |-> FALSE, d |-> 0]
Some(d) == [some |-> TRUE, d |-> d]

\* The depth of the nested call with 5 for 4.
NextDepth_five(depth) ==
    IF depth.some /\ depth.d + 1 <= 5 THEN Some(depth.d + 1) ELSE None

\* The depth of the nested call without the filter.
NextDepth_unfiltered(depth) ==
    IF depth.some THEN Some(depth.d + 1) ELSE None

\* depth.map(|d| d + 1).filter(|d| *d <= 4)
NextDepth(depth) ==
    IF depth.some /\ depth.d + 1 <= 4 THEN Some(depth.d + 1) ELSE None

\* The bias 1e-3 of cast_ray: one grid step.
BIAS == 1

\* reflect_orig / shadow_orig: the point moved off the surface, to the
\* side of the normal the direction d leaves on.
BiasedOrigin(point, n, d) ==
    IF mul(d, n) < 0 THEN sub(point, mul_f32(n, BIAS))
    ELSE add(point, mul_f32(n, BIAS))

\* Vec3f::new(0.2, 0.7, 0.8)
BACKGROUND == new(200, 700, 800)

\* The scene_intersect result that stands for None.
NoHit == [some |-> FALSE, point |-> default, n |-> default,
          material |-> MaterialDefault, spheres_dist |-> F32_MAX, idx |-> 0]

\* The scene query made whatever the depth.
scene_intersect_any_depth(depth, orig, dir) ==
    scene_intersect(spheres, orig, dir)

\* depth.and_then(|_| self.scene_intersect(orig, dir))
and_then_scene_intersect(depth, orig, dir) ==
    IF depth.some THEN scene_intersect(spheres, orig, dir) ELSE NoHit

\* The shadow test without the comparison of distances.
ShadowNearer_any(sh, shadow_orig, light_distance) == sh.some

\* lines 170-174, on the result sh of the shadow query: the `continue`
\* is taken.
ShadowNearer(sh, shadow_orig, light_distance) ==
    sh.some /\ norm(sub(sh.point, shadow_orig)) < light_distance

\* lines 170-174: the shadow test of one light.
Occluded(shadow_orig, light_dir, light_distance) ==
    Bind(scene_intersect(spheres, shadow_orig, light_dir), LAMBDA sh :
        ShadowNearer(sh, shadow_orig, light_distance))

\* line 175: what a light adds to diffuse_light_intensity.
DiffuseTerm(light, light_dir, n) ==
    FMul(light.intensity, FMax(0, mul(light_dir, n)))

\* lines 176-179: what a light adds to specular_light_intensity.
SpecularTerm(light, light_dir, n, dir, material) ==
    FMul(FPow(FMax(0, mul(neg(reflect(neg(light_dir), n)), dir)),
              material.specular_exponent),
         light.intensity)

\* lines 163-179: one iteration of `for light in &self.lights`, on the
\* accumulators acc = <<diffuse_light_intensity, specular_light_intensity>>.
LightStep(light, point, n, dir, material, acc) ==
    Bind(normalize(sub(light.position, point)), LAMBDA light_dir :
    Bind(norm(sub(light.position, point)), LAMBDA light_distance :
    Bind(BiasedOrigin(point, n, light_dir), LAMBDA shadow_orig :
        IF Occluded(shadow_orig, light_dir, light_distance)
        THEN acc
        ELSE <<acc[1] + DiffuseTerm(light, light_dir, n),
               acc[2] + SpecularTerm(light, light_dir, n, dir, material)>>)))

\* The value of cast_ray on a hit, from the accumulators and reflect_color.
Shade(material, diffuse, specular, reflect_color) ==
    add(add(mul_f32(mul_f32(material.diffuse_color, diffuse),
                    material.albedo[1]),
            mul_f32(mul_f32(new(ONE, ONE, ONE), specular),
                    material.albedo[2])),
        mul_f32(reflect_color, material.albedo[3]))

\* The camera ray of pixel (row, col), before normalisation.
CameraDir(row, col) ==
    LET w     == width * ONE
        h     == height * ONE
        dir_x == (col * ONE + ONE \div 2) - FDiv(w, 2 * ONE)
        dir_y == -(row * ONE + ONE \div 2) + FDiv(h, 2 * ONE)
        dir_z == FDiv(-h, FMul(2 * ONE, FTan(FDiv(fov, 2 * ONE))))
    IN  new(dir_x, dir_y, dir_z)

\* A fresh activation record of cast_ray(orig, dir, depth).
Frame(orig, dir, depth) ==
    [orig |-> orig, dir |-> dir, depth |-> depth, at |-> "enter",
     point |-> default, n |-> default, material |-> MaterialDefault,
     reflect_color |-> default, li |-> 1,
     diffuse_light_intensity |-> 0, specular_light_intensity |-> 0,
     queries |-> 0]

Top == stack[Len(stack)]

NoReturn == [valid |-> FALSE, orig |-> default, dir |-> default,
             depth |-> None, queries |-> 0, color |-> default]

\* The innermost call returns `color`, having made `queries` calls of
\* scene_intersect itself: to the call that waits for its reflect_color,
\* or to render, which stores the colour at self[i][j] and moves on.
Return(color, queries) ==
    /\ ret' = [valid |-> TRUE, orig |-> Top.orig, dir |-> Top.dir,
               depth |-> Top.depth, queries |-> queries, color |-> color]
    /\ IF Len(stack) > 1
       THEN /\ stack' = [SubSeq(stack, 1, Len(stack) - 1)
                           EXCEPT ![Len(stack) - 1].reflect_color = color,
                                  ![Len(stack) - 1].at = "lights"]
            /\ UNCHANGED <<framebuffer, writes, i, j>>
       ELSE /\ stack' = <<>>
            /\ framebuffer' = [framebuffer EXCEPT ![Cell(i, j)] = color]
            /\ writes' = [writes EXCEPT ![Cell(i, j)] = @ + 1]
            /\ IF j + 1 < width
               THEN j' = j + 1 /\ i' = i
               ELSE j' = 0 /\ i' = i + 1

\* render, lines 193-202: the call of cast_ray for pixel (i, j).
RenderPixel ==
    /\ pc = "render" /\ stack = <<>> /\ i < height
    /\ stack' = <<Frame(new(0, 0, 0), normalize(CameraDir(i, j)), Some(0))>>
    /\ UNCHANGED <<spheres, lights, width, framebuffer, pc, i, j, ret,
                   writes, toned, bytes, png, result, inp, out>>

\* cast_ray, the else branch: depth is None or the scene query is None.
CastRayBackground ==
    /\ stack # <<>> /\ Top.at = "enter"
    /\ ~and_then_scene_intersect(Top.depth, Top.orig, Top.dir).some
    /\ Return(BACKGROUND, IF Top.depth.some THEN 1 ELSE 0)
    /\ UNCHANGED <<spheres, lights, width, pc, toned, bytes, png, result,
                   inp, out>>

\* The call that found the surface q and waits for its reflect_color.
Waiting(frame, q) ==
    [frame EXCEPT !.at = "reflect", !.point = q.point, !.n = q.n,
                  !.material = q.material, !.queries = 1]

\* lines 150-159: the call for the reflected ray.
Reflected(point, n, reflect_dir, depth) ==
    Frame(BiasedOrigin(point, n, reflect_dir), reflect_dir, depth)

\* cast_ray, lines 148-159: the scene query found a surface; the call of
\* cast_ray for the reflected ray.
CastRayReflect ==
    /\ stack # <<>> /\ Top.at = "enter"
    /\ \E q \in {and_then_scene_intersect(Top.depth, Top.orig, Top.dir)} :
          /\ q.some
          /\ \E reflect_dir \in {normalize(reflect(Top.dir, q.n))} :
                stack' = Append([stack EXCEPT ![Len(stack)] = Waiting(Top, q)],
                                Reflected(q.point, q.n, reflect_dir,
                                          NextDepth(Top.depth)))
    /\ UNCHANGED <<spheres, lights, width, framebuffer, pc, i, j, ret,
                   writes, toned, bytes, png, result, inp, out>>

\* cast_ray, lines 162-180: one iteration of the loop over the lights.
CastRayLight ==
    /\ stack # <<>> /\ Top.at = "lights" /\ Top.li <= Len(lights)
    /\ \E acc \in {LightStep(lights[Top.li], Top.point, Top.n, Top.dir,
                             Top.material,
                             <<Top.diffuse_light_intensity,
                               Top.specular_light_intensity>>)} :
          stack' = [stack EXCEPT
                      ![Len(stack)].diffuse_light_intensity = acc[1],
                      ![Len(stack)].specular_light_intensity = acc[2],
                      ![Len(stack)].li = @ + 1,
                      ![Len(stack)].queries = @ + 1]
    /\ UNCHANGED <<spheres, lights, width, framebuffer, pc, i, j, ret,
                   writes, toned, bytes, png, result, inp, out>>

\* cast_ray, lines 181-183: the loop is over; the colour is returned.
CastRayShade ==
    /\ stack # <<>> /\ Top.at = "lights" /\ Top.li > Len(lights)
    /\ Return(Shade(Top.material, Top.diffuse_light_intensity,
                    Top.specular_light_intensity, Top.reflect_color),
              Top.queries)
    /\ UNCHANGED <<spheres, lights, width, pc, toned, bytes, png, result,
                   inp, out>>

\* render, line 204: the pass over the pixels is over.
RenderPassDone ==
    /\ pc = "render" /\ stack = <<>> /\ ~(i < height)
    /\ pc' = "create"
    /\ UNCHANGED <<spheres, lights, width, framebuffer, i, j, stack, ret,
                   writes, toned, bytes, png, result, inp, out>>

\* One request to the png encoder, as the encoder saw it.
Request(op, ok, arg) == [op |-> op, ok |-> ok, arg |-> arg]

\* A failure that is not propagated: render goes on.
Try_ignored(ok, next) == pc' = next /\ result' = result

\* The `?` operator: on Ok render goes on at `next`; on Err it returns
\* the error to main at once.
Try(ok, next) ==
    IF ok THEN pc' = next /\ result' = result
    ELSE pc' = "returned" /\ result' = "Err"

\* render, line 206: File::create("image.png")?
CreateFile ==
    /\ pc = "create"
    /\ \E ok \in BOOLEAN :
          /\ png' = Append(png, Request("create", ok, <<>>))
          /\ Try(ok, "header")
    /\ UNCHANGED <<spheres, lights, width, framebuffer, i, j, stack, ret,
                   writes, toned, bytes, inp, out>>

\* render, lines 207-209: Encoder::new(w, width, height), write_header()?
WriteHeader ==
    /\ pc = "header"
    /\ \E ok \in BOOLEAN :
          /\ png' = Append(png, Request("write_header", ok,
                                        <<width, height>>))
          /\ Try(ok, "collect")
    /\ UNCHANGED <<spheres, lights, width, framebuffer, i, j, stack, ret,
                   writes, toned, bytes, inp, out>>

\* The tone mapping without its threshold: every pixel is rescaled.
ToneMapMax_always(p, max) ==
    IF max > 0 THEN mul_f32(p, FDiv(ONE, max)) ELSE p

\* The tone mapping of the closure of lines 214-220, on one pixel.
ToneMapMax(p, max) ==
    IF max > ONE THEN mul_f32(p, FDiv(ONE, max)) ELSE p

ToneMap(p) == ToneMapMax(p, FMax(p[1], FMax(p[2], p[3])))

\* The cell the iterator of line 213 visits next: one pixel per three
\* bytes collected so far.
NextCell == Len(bytes) \div 3 + 1

\* render, lines 211-221: iter_mut().flat_map(..).collect(), one pixel:
\* the pixel is tone-mapped in place and its three bytes are collected.
CollectPixel ==
    /\ pc = "collect" /\ NextCell <= Len(framebuffer)
    /\ \E p \in {ToneMap(framebuffer[NextCell])} :
          /\ framebuffer' = [framebuffer EXCEPT ![NextCell] = p]
          /\ bytes' = bytes \o as_bytes(p)
          /\ toned' = [toned EXCEPT ![NextCell] = @ + 1]
    /\ UNCHANGED <<spheres, lights, width, pc, i, j, stack, ret, writes,
                   png, result, inp, out>>

\* render, lines 210-223: writer.write_image_data(&bytes)?; Ok(())
WriteImageData ==
    /\ pc = "collect" /\ NextCell > Len(framebuffer)
    /\ \E ok \in BOOLEAN :
          /\ png' = Append(png, Request("write_image_data", ok, bytes))
          /\ pc' = "returned"
          /\ result' = IF ok THEN "Ok" ELSE "Err"
    /\ UNCHANGED <<spheres, lights, width, framebuffer, i, j, stack, ret,
                   writes, toned, bytes, inp, out>>

\* main, line 252: image.render().expect("render")
MainExpect ==
    /\ pc = "returned"
    /\ pc' = IF result = "Ok" THEN "exit" ELSE "panic"
    /\ UNCHANGED <<spheres, lights, width, framebuffer, i, j, stack, ret,
                   writes, toned, bytes, png, result, inp, out>>

---------------------------------------------------------------------------
(* The scenes and image sizes render is run on.                            *)

\* main, lines 237-243
ivory == Material(new(600, 300, 100), new(400, 400, 300), 50)
red_rubber == Material(new(900, 100, 0), new(300, 100, 100), 10)
mirror == Material(new(0, 10000, 800), new(1000, 1000, 1000), 1425)

\* main, lines 245-251: the scene the program renders.
SceneMain ==
    [spheres |-> <<Sphere(new(-3000, 0, -16000), 2000, ivory),
                   Sphere(new(-1000, -1500, -12000), 2000, mirror),
                   Sphere(new(1500, -500, -18000), 3000, red_rubber),
                   Sphere(new(7000, 5000, -18000), 4000, mirror)>>,
     lights  |-> <<Light(new(-20000, 20000, 20000), 1500),
                   Light(new(30000, 50000, -25000), 1800),
                   Light(new(30000, 20000, 30000), 1700)>>]

\* Two mirrors facing each other, the camera between them: the ray of
\* the middle pixel is reflected back and forth without end.
SceneMirrors ==
    [spheres |-> <<Sphere(new(0, 0, -6000), 2000, mirror),
                   Sphere(new(0, 0, 6000), 2000, mirror)>>,
     lights  |-> <<Light(new(0, 5000, 0), 1500)>>]

\* A sphere in front of the camera and a smaller one behind it.  Seen from
\* the point the middle ray hits, the first light lies behind the small
\* sphere, the second in front of it, the third off to the side.
SceneShadow ==
    [spheres |-> <<Sphere(new(0, 0, -5000), 2000, ivory),
                   Sphere(new(0, 0, 4000), 1000, red_rubber)>>,
     lights  |-> <<Light(new(0, 0, 8000), 1500),
                   Light(new(0, 0, 1000), 1800),
                   Light(new(0, 4000, -1000), 1700)>>]

\* No sphere, no light.
SceneEmpty == [spheres |-> <<>>, lights |-> <<>>]

Scenes == {SceneMain, SceneMirrors, SceneShadow, SceneEmpty}

\* inp and out while no function is applied on its own.
NotApplied == [done |-> FALSE]

\* The largest image rendered.
MaxWidth == 3
MaxHeight == 3

\* Image::new(width, height), add_sphere and add_light (main, lines
\* 236-251), up to the call of render.
Init ==
    /\ \E scene \in Scenes :
          spheres = scene.spheres /\ lights = scene.lights
    /\ width \in 1..MaxWidth
    /\ \E h \in 1..MaxHeight :
          /\ framebuffer = [k \in 1..(width * h) |-> default]
          /\ writes = [k \in 1..(width * h) |-> 0]
          /\ toned = [k \in 1..(width * h) |-> 0]
    /\ pc = "render" /\ i = 0 /\ j = 0
    /\ stack = <<>> /\ ret = NoReturn
    /\ bytes = <<>> /\ png = <<>> /\ result = "none"
    /\ inp = NotApplied /\ out = NotApplied

Next ==
    \/ RenderPixel
    \/ CastRayBackground
    \/ CastRayReflect
    \/ CastRayLight
    \/ CastRayShade
    \/ RenderPassDone
    \/ CreateFile
    \/ WriteHeader
    \/ CollectPixel
    \/ WriteImageData
    \/ MainExpect

Spec == Init /\ [][Next]_vars

\* The program is one thread that runs until main returns or panics.
FairSpec == Spec /\ WF_vars(Next)

---------------------------------------------------------------------------
(* The functions ray_intersect, scene_intersect and the export closure,    *)
(* each applied once to an argument drawn from a bounded set.              *)

\* The variables of render while a function is applied on its own.
NotRendering(what) ==
    /\ spheres = <<>> /\ lights = <<>> /\ width = 1
    /\ framebuffer = <<>> /\ writes = <<>> /\ toned = <<>>
    /\ pc = what /\ i = 0 /\ j = 0
    /\ stack = <<>> /\ ret = NoReturn
    /\ bytes = <<>> /\ png = <<>> /\ result = "none"

\* Coordinates of the rays and spheres ray_intersect is applied to:
\* multiples of half a unit, up to MaxCoord of them either way.
MaxCoord == 1
Coords == {500 * k : k \in (-MaxCoord)..MaxCoord}

\* Unit directions that are exact on the grid: the six axis directions and
\* four directions with components 0.6 and 0.8.
UnitDirs ==
    {new(ONE, 0, 0), new(-ONE, 0, 0), new(0, ONE, 0), new(0, -ONE, 0),
     new(0, 0, ONE), new(0, 0, -ONE),
     new(600, 800, 0), new(-600, 0, 800), new(0, 800, -600),
     new(800, -600, 0)}

InitRay ==
    /\ NotRendering("ray_intersect")
    /\ \E cx \in Coords, cy \in Coords, cz \in Coords,
          radius \in {300, 500, 700}, direction \in UnitDirs :
          inp = [sphere    |-> Sphere(new(cx, cy, cz), radius, ivory),
                 p         |-> new(0, 0, 0),
                 direction |-> direction,
                 t0        |-> 0]
    /\ out = NotApplied

\* sphere.ray_intersect(p, direction, &mut t0)
ApplyRayIntersect ==
    /\ pc = "ray_intersect" /\ ~out.done
    /\ out' = [done |-> TRUE,
               val  |-> ray_intersect(inp.sphere, inp.p, inp.direction,
                                      inp.t0)]
    /\ UNCHANGED <<spheres, lights, width, framebuffer, pc, i, j, stack,
                   ret, writes, toned, bytes, png, result, inp>>

SpecRay == InitRay /\ [][ApplyRayIntersect]_vars

\* The ray of inp at parameter t (in thousandths) is inside or on the
\* sphere of inp; exact integer arithmetic, lengths scaled by five.
InsideAt(t) ==
    LET e(k) == 5 * (inp.p[k] - inp.sphere.center[k])
                    + t * (inp.direction[k] \div 200)
    IN  e(1) * e(1) + e(2) * e(2) + e(3) * e(3)
            <= (5 * inp.sphere.radius) * (5 * inp.sphere.radius)

\* The origin of the ray of inp is strictly inside the sphere of inp.
OriginInside ==
    LET e(k) == inp.p[k] - inp.sphere.center[k]
    IN  e(1) * e(1) + e(2) * e(2) + e(3) * e(3)
            < inp.sphere.radius * inp.sphere.radius

\* The ray meets the surface of the sphere at parameter t.
MeetsAt(t) == InsideAt(t) /\ (~InsideAt(t - 1) \/ ~InsideAt(t + 1))

\* No point of the sphere lies further along the line than this.
MaxT ==
    Abs(inp.sphere.center[1] - inp.p[1]) + Abs(inp.sphere.center[2] - inp.p[2])
        + Abs(inp.sphere.center[3] - inp.p[3]) + inp.sphere.radius + 1

\* The origin is strictly outside the sphere and the direction points away
\* from its center.
OutsidePointingAway ==
    /\ ~InsideAt(0)
    /\ (inp.sphere.center[1] - inp.p[1]) * inp.direction[1]
         + (inp.sphere.center[2] - inp.p[2]) * inp.direction[2]
         + (inp.sphere.center[3] - inp.p[3]) * inp.direction[3] < 0

\* C4: ray_intersect reports a hit exactly when the line through the origin
\* along the direction meets the sphere at some parameter t >= 0, and the
\* distance it reports is the smallest such t: the near root when it is
\* non-negative, otherwise the far root (the origin is inside the sphere).
\* It reports no hit when the line misses the sphere, when both roots are
\* negative, and so whenever the origin is strictly outside the sphere and
\* the direction points away from its center.
C4_RayIntersect ==
    (pc = "ray_intersect" /\ out.done) =>
        /\ out.val.hit <=> \E t \in 0..MaxT : MeetsAt(t)
        /\ out.val.hit =>
              /\ out.val.t0 >= 0
              /\ MeetsAt(out.val.t0)
              /\ \A t \in 0..(out.val.t0 - 1) : ~MeetsAt(t)
              /\ OriginInside => \A t \in (out.val.t0 + 1)..MaxT : ~InsideAt(t)
              /\ ~OriginInside => \A t \in 0..(out.val.t0 - 1) : ~InsideAt(t)
        /\ ~out.val.hit => \A t \in 0..MaxT : ~InsideAt(t)
        /\ OutsidePointingAway => ~out.val.hit

\* A hit from an origin strictly inside the sphere: the near root is
\* negative and the far root is reported.
C4_Witness ==
    /\ pc = "ray_intersect" /\ out.done /\ out.val.hit
    /\ OriginInside /\ out.val.t0 > 0

\* A sphere wholly behind the origin: both roots are negative, no hit.
C4_WitnessBehind ==
    /\ pc = "ray_intersect" /\ out.done /\ ~out.val.hit
    /\ OutsidePointingAway
    /\ \E t \in (-MaxT)..(-1) : InsideAt(t)

---------------------------------------------------------------------------
\* The spheres scene_intersect is applied to, told apart by the specular
\* exponent of their material.  Along -z from the origin: two overlapping
\* spheres entered at the same distance 3, a nearer one entered at 2, one
\* behind the origin, one off the ray, and three about the far plane,
\* entered at 999.999, 1000 and 1001.
Palette ==
    <<Sphere(new(0, 0, -5000), 2000, Material(new(ONE, 0, 0), BACKGROUND, 1)),
      Sphere(new(0, 0, -6000), 3000, Material(new(ONE, 0, 0), BACKGROUND, 2)),
      Sphere(new(0, 0, -4000), 2000, Material(new(ONE, 0, 0), BACKGROUND, 3)),
      Sphere(new(0, 0, 5000), 2000, Material(new(ONE, 0, 0), BACKGROUND, 4)),
      Sphere(new(5000, 0, -5000), 1000, Material(new(ONE, 0, 0), BACKGROUND, 5)),
      Sphere(new(0, 0, -1001999), 2000, Material(new(ONE, 0, 0), BACKGROUND, 6)),
      Sphere(new(0, 0, -1002000), 2000, Material(new(ONE, 0, 0), BACKGROUND, 7)),
      Sphere(new(0, 0, -1003000), 2000, Material(new(ONE, 0, 0), BACKGROUND, 8))>>

\* The longest list of spheres scene_intersect is applied to.
MaxSpheres == 4

\* The lists of distinct spheres of the palette, in every order.
SphereLists ==
    {[k \in 1..Len(ks) |-> Palette[ks[k]]] :
        ks \in {q \in UNION {[1..n -> 1..Len(Palette)] : n \in 0..MaxSpheres} :
                   \A a, b \in 1..Len(q) : a # b => q[a] # q[b]}}

InitScene ==
    /\ NotRendering("scene_intersect")
    /\ \E list \in SphereLists,
          direction \in {new(0, 0, -ONE), new(0, 0, ONE), new(ONE, 0, 0)} :
          inp = [spheres |-> list, orig |-> new(0, 0, 0),
                 direction |-> direction]
    /\ out = NotApplied

\* scene_intersect(orig, direction, spheres)
ApplySceneIntersect ==
    /\ pc = "scene_intersect" /\ ~out.done
    /\ out' = [done |-> TRUE,
               val  |-> scene_intersect(inp.spheres, inp.orig, inp.direction)]
    /\ UNCHANGED <<spheres, lights, width, framebuffer, pc, i, j, stack,
                   ret, writes, toned, bytes, png, result, inp>>

SpecScene == InitScene /\ [][ApplySceneIntersect]_vars

\* What ray_intersect alone says of each sphere of inp up to the n-th.
RECURSIVE Alone(_)
Alone(n) ==
    IF n = 0 THEN <<>>
    ELSE Append(Alone(n - 1),
                ray_intersect(inp.spheres[n], inp.orig, inp.direction, 0))

\* The spheres the ray intersects, h being what ray_intersect says of each.
HitSet(h) == {k \in 1..Len(h) : h[k].hit}

\* A sphere the ray intersects at the least distance.
IsNearest(h, k) ==
    k \in HitSet(h) /\ \A m \in HitSet(h) : h[k].t0 <= h[m].t0

\* The first sphere in insertion order that attains the least distance.
FirstNearest(h) ==
    CHOOSE k \in HitSet(h) :
        IsNearest(h, k) /\ \A m \in 1..(k - 1) : ~IsNearest(h, m)

\* C5: the sphere whose hit point, normal and material scene_intersect
\* records is the first sphere, in insertion order, that attains the least
\* hit distance over all spheres the ray intersects: an equal distance does
\* not replace the record (strict <), and a sphere the ray misses never
\* changes it, whatever distance was left behind by an earlier sphere.
C5_FirstNearest ==
    (pc = "scene_intersect" /\ out.done) =>
        \A h \in {Alone(Len(inp.spheres))} :
            IF HitSet(h) = {}
            THEN /\ out.val.idx = 0
                 /\ out.val.point = default /\ out.val.n = default
                 /\ out.val.material = MaterialDefault
            ELSE \A first \in {FirstNearest(h)} :
                 /\ out.val.idx = first
                 /\ out.val.spheres_dist = h[first].t0
                 /\ out.val.point =
                        add(inp.orig, mul_f32(inp.direction, h[first].t0))
                 /\ out.val.n =
                        normalize(sub(out.val.point,
                                      inp.spheres[first].center))
                 /\ out.val.material = inp.spheres[first].material

\* Two spheres hit at the same least distance, the first of them recorded,
\* after a sphere behind the origin and before a sphere off the ray.
C5_Witness ==
    /\ pc = "scene_intersect" /\ out.done
    /\ \E h \in {Alone(Len(inp.spheres))} : \E a, b \in HitSet(h) :
          /\ a < b /\ IsNearest(h, a) /\ IsNearest(h, b) /\ out.val.idx = a
          /\ \E m \in 1..(a - 1) : ~h[m].hit /\ h[m].t0 < 0
          /\ \E m \in (b + 1)..Len(h) : ~h[m].hit

\* C6: scene_intersect returns Some exactly when the least hit distance
\* over the spheres the ray intersects is below 1000; a ray whose nearest
\* hit is at 1000 or beyond, or that hits nothing, gets None.  A Some result
\* carries the material of the nearest sphere.
C6_FarPlane ==
    (pc = "scene_intersect" /\ out.done) =>
        \A h \in {Alone(Len(inp.spheres))} :
            /\ out.val.some <=> \E k \in HitSet(h) : h[k].t0 < 1000 * ONE
            /\ out.val.some =>
                  out.val.material = inp.spheres[FirstNearest(h)].material

\* A nearest hit exactly at distance 1000 is no hit.
C6_Witness ==
    /\ pc = "scene_intersect" /\ out.done /\ ~out.val.some
    /\ \E h \in {Alone(Len(inp.spheres))} :
          HitSet(h) # {} /\ h[FirstNearest(h)].t0 = 1000 * ONE

\* A nearest hit just inside the far plane, at 999.999, is a hit.
C6_WitnessNear ==
    /\ pc = "scene_intersect" /\ out.done
    /\ out.val.some /\ out.val.spheres_dist = 1000 * ONE - 1

---------------------------------------------------------------------------
\* The channel values the export closure is applied to; every triple of
\* them is a pixel.
Channels == {-500, 0, 250, 500, 750, 1000, 1250, 2000, 2500, 5125}

InitTone ==
    /\ NotRendering("tone")
    /\ \E r \in Channels, g \in Channels, b \in Channels :
          inp = [pixel |-> new(r, g, b)]
    /\ out = NotApplied

\* The closure of lines 213-220 on one pixel.
ApplyToneMap ==
    /\ pc = "tone" /\ ~out.done
    /\ \E p \in {ToneMap(inp.pixel)} :
          out' = [done |-> TRUE, pixel |-> p, bytes |-> as_bytes(p)]
    /\ UNCHANGED <<spheres, lights, width, framebuffer, pc, i, j, stack,
                   ret, writes, toned, bytes, png, result, inp>>

SpecTone == InitTone /\ [][ApplyToneMap]_vars

\* The largest channel of the pixel of inp.
MaxChannel ==
    CHOOSE m \in {inp.pixel[1], inp.pixel[2], inp.pixel[3]} :
        \A k \in 1..3 : inp.pixel[k] <= m

\* trunc(clamp(c, 0, 1) * 255)
ByteOf(c) ==
    (255 * (IF c < 0 THEN 0 ELSE IF c > ONE THEN ONE ELSE c)) \div ONE

\* C8 as stated: with m the largest channel of the raw pixel, each byte is
\* trunc(clamp(c / m, 0, 1) * 255) if m > 1 and trunc(clamp(c, 0, 1) * 255)
\* otherwise.
C8_Stated ==
    (pc = "tone" /\ out.done) =>
        \A k \in 1..3 :
            out.bytes[k] =
                IF MaxChannel > ONE
                THEN ByteOf(FDiv(inp.pixel[k], MaxChannel))
                ELSE ByteOf(inp.pixel[k])

\* C8: with m the largest channel of the raw pixel, each byte is
\* trunc(clamp(c * (1 / m), 0, 1) * 255) if m > 1, the reciprocal 1 / m
\* rounded before the product is, and trunc(clamp(c, 0, 1) * 255)
\* otherwise; the largest channel of a rescaled pixel comes out as 254 or
\* 255, and (2.0, 0.5, 1.0) is rescaled to (1.0, 0.25, 0.5) and emitted as
\* (255, 63, 127).
C8_ToneMap ==
    (pc = "tone" /\ out.done) =>
        /\ \A k \in 1..3 :
              out.bytes[k] =
                  IF MaxChannel > ONE
                  THEN ByteOf(FMul(inp.pixel[k], FDiv(ONE, MaxChannel)))
                  ELSE ByteOf(inp.pixel[k])
        /\ MaxChannel > ONE =>
              \E k \in 1..3 : /\ inp.pixel[k] = MaxChannel
                              /\ out.bytes[k] \in {254, 255}
        /\ inp.pixel = new(2000, 500, 1000) =>
              /\ out.pixel = new(1000, 250, 500)
              /\ out.bytes = <<255, 63, 127>>

\* A pixel brighter than 1 whose largest channel is emitted as 254.
C8_Witness ==
    /\ pc = "tone" /\ out.done /\ MaxChannel > ONE
    /\ \E k \in 1..3 : inp.pixel[k] = MaxChannel /\ out.bytes[k] = 254

---------------------------------------------------------------------------
(* cast_ray, render and main.                                              *)

\* C1: cast_ray called with an exhausted depth (None) returns exactly the
\* background colour and makes no scene query, even when a sphere lies in
\* front of its ray: such a call never gets past its entry.  With an active
\* depth it returns the background colour when the scene query finds no
\* hit.
C1_Background ==
    /\ \A k \in 1..Len(stack) :
          ~stack[k].depth.some =>
              stack[k].at = "enter" /\ stack[k].queries = 0
    /\ (ret.valid /\ ~ret.depth.some) =>
          ret.color = new(200, 700, 800) /\ ret.queries = 0
    /\ (ret.valid /\ ret.depth.some
          /\ ~scene_intersect(spheres, ret.orig, ret.dir).some) =>
          ret.color = new(200, 700, 800)

\* A call with an exhausted depth has returned the background colour
\* although a sphere lies in front of its ray.
C1_Witness ==
    /\ ret.valid /\ ~ret.depth.some
    /\ scene_intersect(spheres, ret.orig, ret.dir).some
    /\ ret.color = new(200, 700, 800)

\* The ray that leaves the surface found by the call `frame`.
ReflectedRay(frame) ==
    Reflected(frame.point, frame.n, normalize(reflect(frame.dir, frame.n)),
              None)

\* C2: the renderer starts every chain of nested calls at active depth 0; a
\* call at active depth d that hits a surface makes its nested call with
\* active depth d + 1 when d + 1 <= 4 and with the exhausted marker
\* otherwise; no call carries an active depth above 4, and the reflected
\* ray that leaves a hit at depth 4 comes back as background colour.
C2_DepthChain ==
    /\ stack # <<>> => stack[1].depth = Some(0)
    /\ \A k \in 1..Len(stack) :
          stack[k].depth.some => stack[k].depth.d \in 0..4
    /\ \A k \in 1..(Len(stack) - 1) :
          /\ stack[k].depth.some
          /\ stack[k + 1].depth =
                IF stack[k].depth.d + 1 <= 4
                THEN Some(stack[k].depth.d + 1) ELSE None
    /\ \A k \in 1..Len(stack) :
          (stack[k].depth = Some(4) /\ stack[k].at = "lights") =>
              stack[k].reflect_color = new(200, 700, 800)
    /\ (ret.valid /\ ret.depth.some) => ret.depth.d \in 0..4

\* The call at depth 4 has its reflect_color, the background colour,
\* although the reflected ray has a sphere in front of it.
C2_Witness ==
    /\ Len(stack) = 5 /\ Top.depth = Some(4) /\ Top.at = "lights"
    /\ Top.reflect_color = new(200, 700, 800)
    /\ scene_intersect(spheres, ReflectedRay(Top).orig,
                       ReflectedRay(Top).dir).some

\* The nested calls a call with this depth can still make below itself.
Budget(depth) == IF depth.some THEN 5 - depth.d ELSE 0

\* C3: every cast_ray call eventually returns, also between mirror spheres
\* that face each other: the remaining budget of nested calls strictly
\* decreases with each nested call, so never more than six calls are
\* nested, whatever the scene.
C3_Terminates ==
    /\ [](Len(stack) <= 6)
    /\ [][(Len(stack') > Len(stack) /\ stack # <<>>) =>
             /\ Budget(Top.depth) > 0
             /\ Budget(stack'[Len(stack')].depth) < Budget(Top.depth)]_vars
    /\ (stack # <<>>) ~> (stack = <<>>)

\* Between the facing mirrors, six calls are nested, the innermost with an
\* exhausted depth.
C3_Witness ==
    /\ Len(stack) = 6 /\ ~Top.depth.some
    /\ spheres = SceneMirrors.spheres

\* The shadow ray from the surface of the call `frame` toward light
\* number k: its biased origin, its direction, and the distance from the
\* shading point to the light.
ShadowRay(frame, k) ==
    Bind(sub(lights[k].position, frame.point), LAMBDA to_light :
    Bind(normalize(to_light), LAMBDA light_dir :
        [orig  |-> IF mul(light_dir, frame.n) < 0
                   THEN sub(frame.point, mul_f32(frame.n, 1))
                   ELSE add(frame.point, mul_f32(frame.n, 1)),
         dir   |-> light_dir,
         light |-> norm(to_light)]))

\* The shadow ray toward light k hits a sphere nearer than the light.
InShadow(frame, k) ==
    Bind(ShadowRay(frame, k), LAMBDA ray :
    Bind(scene_intersect(spheres, ray.orig, ray.dir), LAMBDA sh :
        sh.some /\ norm(sub(sh.point, ray.orig)) < ray.light))

\* The diffuse and the specular term of light k alone.
OwnTerms(frame, k) ==
    Bind(ShadowRay(frame, k).dir, LAMBDA light_dir :
        <<DiffuseTerm(lights[k], light_dir, frame.n),
          SpecularTerm(lights[k], light_dir, frame.n, frame.dir,
                       frame.material)>>)

\* The sum of the terms of a set of lights, taken in no particular order.
RECURSIVE SumOfTerms(_, _)
SumOfTerms(frame, ks) ==
    IF ks = {} THEN <<0, 0>>
    ELSE Bind(CHOOSE k \in ks : TRUE, LAMBDA k :
         Bind2(OwnTerms(frame, k), SumOfTerms(frame, ks \ {k}),
               LAMBDA own, rest : <<own[1] + rest[1], own[2] + rest[2]>>))

\* C7: in the loop over the lights, a light is skipped, adding nothing to
\* the two accumulators, exactly when the shadow ray from the biased origin
\* toward it hits a sphere at a distance smaller than the distance from the
\* shading point to the light; every other light adds its own diffuse and
\* specular term, so that the accumulators are the sum, in any order, of
\* the own terms of the lights that are not in shadow.
C7_Lights ==
    \A f \in 1..Len(stack) :
        stack[f].at = "lights" =>
            <<stack[f].diffuse_light_intensity,
              stack[f].specular_light_intensity>>
              = SumOfTerms(stack[f], {k \in 1..(stack[f].li - 1) :
                                         ~InShadow(stack[f], k)})

\* The loop is over: one light was skipped, a light whose shadow ray hits a
\* sphere beyond it was not, and the accumulated diffuse term is not zero.
C7_Witness ==
    /\ stack # <<>> /\ Top.at = "lights" /\ Top.li > Len(lights)
    /\ \E k \in 1..Len(lights) : InShadow(Top, k)
    /\ \E k \in 1..Len(lights) :
          /\ ~InShadow(Top, k)
          /\ scene_intersect(spheres, ShadowRay(Top, k).orig,
                             ShadowRay(Top, k).dir).some
          /\ OwnTerms(Top, k)[1] > 0
    /\ Top.diffuse_light_intensity > 0

\* The cells of the image, as positions of the framebuffer.
Cells == 1..Len(framebuffer)

\* render has returned to main.
Returned == pc \in {"returned", "exit", "panic"}

\* The requests of the given kind the exporter has received.
Requests(op) == {k \in 1..Len(png) : png[k].op = op}

\* The render pass stores into no cell twice and, once it is over, has
\* stored into every cell; what it stores last is the colour cast_ray
\* returned for the camera ray of that cell's own pixel.
WrittenOnce ==
    /\ \A c \in Cells : writes[c] <= 1
    /\ pc # "render" => \A c \in Cells : writes[c] = 1
    /\ (pc = "render" /\ stack = <<>> /\ ret.valid) =>
          \E row \in 0..(height - 1), col \in 0..(width - 1) :
              /\ row * width + col + 1 = i * width + j
              /\ writes[row * width + col + 1] = 1
              /\ \A c \in Cells : writes[c] = 1 <=> c <= row * width + col + 1
              /\ framebuffer[row * width + col + 1] = ret.color
              /\ ret.orig = new(0, 0, 0) /\ ret.depth = Some(0)
              /\ ret.dir = normalize(CameraDir(row, col))

\* No cell is tone-mapped twice, none before every cell has been written,
\* and the exporter is handed pixel bytes only after every cell has been
\* tone-mapped.
ToneMappedInOrder ==
    /\ \A c \in Cells : toned[c] <= 1
    /\ (\E c \in Cells : toned[c] = 1) => \A c \in Cells : writes[c] = 1
    /\ Requests("write_image_data") # {} => \A c \in Cells : toned[c] = 1

\* The bytes the exporter is handed are one RGB triple per cell, in
\* row-major order: width * height * 3 of them.
RowMajorBytes ==
    \A k \in Requests("write_image_data") :
        /\ Len(png[k].arg) = width * height * 3
        /\ \A row \in 0..(height - 1), col \in 0..(width - 1), ch \in 1..3 :
              png[k].arg[(row * width + col) * 3 + ch]
                  = as_bytes(framebuffer[row * width + col + 1])[ch]

\* C9 as stated: in every run of render each cell is written exactly once
\* by the render pass, with the colour of its own pixel's camera ray, then
\* tone-mapped exactly once, after all cells are written and before any
\* byte is handed to the exporter, and the exporter receives exactly
\* width * height * 3 bytes, row-major.
C9_Stated ==
    /\ WrittenOnce /\ ToneMappedInOrder /\ RowMajorBytes
    /\ Returned =>
          /\ \A c \in Cells : toned[c] = 1
          /\ Requests("write_image_data") # {}

\* C9: in every run of render each cell is written exactly once by the
\* render pass, with the colour of its own pixel's camera ray.  In the runs
\* in which the output target is created and the header written, each cell
\* is then tone-mapped exactly once, after all cells are written and before
\* any byte is handed to the exporter, which receives exactly
\* width * height * 3 bytes, row-major; in the other runs no cell is
\* tone-mapped and the exporter receives no bytes.
C9_WriteThenToneMap ==
    /\ WrittenOnce /\ ToneMappedInOrder /\ RowMajorBytes
    /\ Returned =>
          IF \E k \in 1..Len(png) : ~png[k].ok /\ png[k].op # "write_image_data"
          THEN /\ \A c \in Cells : toned[c] = 0
               /\ Requests("write_image_data") = {}
          ELSE /\ \A c \in Cells : toned[c] = 1
               /\ Requests("write_image_data") # {}

\* An image of several rows and columns has been exported.
C9_Witness ==
    /\ pc = "exit" /\ width > 1 /\ height > 1 /\ width # height
    /\ Requests("write_image_data") # {}
    /\ \A c \in Cells : writes[c] = 1 /\ toned[c] = 1

\* The header could not be written: render has returned and no cell is
\* tone-mapped.
C9_WitnessFailed ==
    /\ Returned /\ Len(png) = 2 /\ ~png[2].ok
    /\ \A c \in Cells : writes[c] = 1 /\ toned[c] = 0

\* C10: the export makes its three steps in order and each at most once;
\* the first step that fails is the last one made, render returning the
\* one error to main, which aborts; render returns success only when all
\* three steps succeeded.
C10_ExportErrors ==
    /\ Len(png) <= 3
    /\ \A k \in 1..Len(png) :
          png[k].op = <<"create", "write_header", "write_image_data">>[k]
    /\ \A k \in 1..(Len(png) - 1) : png[k].ok
    /\ result = "Err" <=> (png # <<>> /\ ~png[Len(png)].ok)
    /\ result = "Ok" <=> (Len(png) = 3 /\ \A k \in 1..3 : png[k].ok)
    /\ result = "Err" => pc \in {"returned", "panic"}
    /\ result = "Ok" => pc \in {"returned", "exit"}
    /\ pc \in {"returned", "exit", "panic"} <=> result # "none"

\* The header could not be written: main has aborted, and no pixel data
\* was handed to the exporter.
C10_Witness ==
    /\ pc = "panic" /\ result = "Err"
    /\ Len(png) = 2 /\ png[1].ok /\ ~png[2].ok

===========================================================================
